---- MODULE Spec2Model ----
(***************************************************************************)
(* Verification model of SageAttention's build script (setup.py) and of    *)
(* the attention kernels it compiles.                                      *)
(*                                                                         *)
(* A Python string is modelled as a sequence of fragments.  Every          *)
(* character the script inspects (the characters of a compute capability   *)
(* such as 8.0+PTX) is a fragment of its own, so split, replace,           *)
(* startswith and endswith are computed and not assumed; a literal the     *)
(* script never looks into (a fixed compiler flag) is a single fragment.   *)
(***************************************************************************)
EXTENDS Integers, Sequences, FiniteSets, TLC

\* ------------------------------------------------------------------ bounds
\* largest number of entries written in SAGEATTENTION_CUDA_ARCH_LIST
MaxArchs == 2
\* largest number of GPUs torch.cuda.device_count() reports
MaxGPUs == 2

\* ------------------------------------------------- Python string helpers
RECURSIVE SplitOn(_, _, _)
\* str.split(sep) for a one-character sep; cur is the piece being read
SplitOn(s, sep, cur) ==
    IF s = <<>> THEN <<cur>>
    ELSE IF Head(s) = sep THEN <<cur>> \o SplitOn(Tail(s), sep, <<>>)
    ELSE SplitOn(Tail(s), sep, Append(cur, Head(s)))

Split(s, sep) == SplitOn(s, sep, <<>>)

RECURSIVE DropEmpty(_)
DropEmpty(pieces) ==
    IF pieces = <<>> THEN <<>>
    ELSE IF Head(pieces) = <<>> THEN DropEmpty(Tail(pieces))
    ELSE <<Head(pieces)>> \o DropEmpty(Tail(pieces))

\* str.split() without argument: runs of whitespace separate, no empty piece
SplitWhitespace(s) == DropEmpty(Split(s, " "))

RECURSIVE Remove(_, _)
\* str.replace(ch, "")
Remove(s, ch) ==
    IF s = <<>> THEN <<>>
    ELSE IF Head(s) = ch THEN Remove(Tail(s), ch)
    ELSE <<Head(s)>> \o Remove(Tail(s), ch)

\* str.startswith(prefix) for one prefix
StartsWith(s, prefix) ==
    /\ Len(s) >= Len(prefix)
    /\ SubSeq(s, 1, Len(prefix)) = prefix

\* str.startswith(prefixes) for a tuple of prefixes
StartsWithAny(s, prefixes) ==
    \E k \in 1..Len(prefixes) : StartsWith(s, prefixes[k])

\* str.endswith(suffix)
EndsWith(s, suffix) ==
    /\ Len(s) >= Len(suffix)
    /\ SubSeq(s, Len(s) - Len(suffix) + 1, Len(s)) = suffix

Digits == <<"0", "1", "2", "3", "4", "5", "6", "7", "8", "9">>

RECURSIVE IntToStr(_)
\* the decimal digits an f-string writes for a non-negative int
IntToStr(n) ==
    IF n < 10 THEN <<Digits[n + 1]>>
    ELSE IntToStr(n \div 10) \o <<Digits[(n % 10) + 1]>>

\* f"{major}.{minor}"
FormatCapability(major, minor) == IntToStr(major) \o <<".">> \o IntToStr(minor)

\* ----------------------------------------------------------- input domains
\* entries a user writes in SAGEATTENTION_CUDA_ARCH_LIST
ArchTokens ==
    { <<"8", ".", "0">>, <<"8", ".", "6">>, <<"8", ".", "9">>,
      <<"9", ".", "0">>, <<"1", "2", ".", "0">>, <<"7", ".", "5">>,
      <<"8", ".", "0", "+", "P", "T", "X">>,
      <<"9", ".", "0", "+", "P", "T", "X">> }

RECURSIVE JoinSpace(_)
JoinSpace(toks) ==
    IF toks = <<>> THEN <<>>
    ELSE IF Len(toks) = 1 THEN toks[1]
    ELSE toks[1] \o <<" ">> \o JoinSpace(Tail(toks))

TokenLists == UNION { [1..n -> ArchTokens] : n \in 0..MaxArchs }

\* values of the environment variable: unset/empty, blank, or a list
ArchListValues == { JoinSpace(t) : t \in TokenLists } \cup { <<" ">> }

\* (major, minor) pairs torch.cuda.get_device_capability can return
DeviceCapabilities ==
    { <<7, 5>>, <<8, 0>>, <<8, 6>>, <<8, 9>>, <<9, 0>>, <<12, 0>> }

\* CUDA releases nvcc -V can report, as (major, minor)
NvccVersions ==
    { <<11, 8>>, <<12, 0>>, <<12, 2>>, <<12, 3>>, <<12, 4>>, <<12, 6>>, <<12, 8>> }

\* packaging.version.Version.__lt__ on two-component releases
VersionLess(a, b) == a[1] < b[1] \/ (a[1] = b[1] /\ a[2] < b[2])

\* ------------------------------------------------------- script constants
None == "None"

NVCC_FLAGS_COMMON ==
    << <<"-O3">>, <<"-std=c++17">>, <<"-U__CUDA_NO_HALF_OPERATORS__">>,
       <<"-U__CUDA_NO_HALF_CONVERSIONS__">>, <<"--use_fast_math">>,
       <<"--threads=", "cpu_count">>, <<"-diag-suppress=174">>,
       <<"-diag-suppress=177">>, <<"-diag-suppress=221">>,
       <<"-D_GLIBCXX_USE_CXX11_ABI=", "ABI">> >>

\* minimum CUDA release overall and per compute capability
MinCuda == <<12, 0>>

MinCuda89_low == <<12, 3>>

MinCuda89 == <<12, 4>>

MinCuda90 == <<12, 3>>

MinCuda120 == <<12, 8>>

Cap80 == <<"8", ".", "0">>

Cap89 == <<"8", ".", "9">>

Cap90 == <<"9", ".", "0">>

Cap120 == <<"1", "2", ".", "0">>

\* architecture numbers that take the "a" suffix
SuffixedArchs_no120 == { <<"9", "0">> }

SuffixedArchs == { <<"9", "0">>, <<"1", "2", "0">> }

\* allowed_capabilities passed to get_nvcc_flags for each extension
Sm80Allowed == <<Cap80>>

Sm89Allowed_with90 == <<Cap89, Cap120, Cap90>>

Sm89Allowed == <<Cap89, Cap120>>

Sm90Allowed == <<Cap90>>

FusedAllowed == <<Cap80, Cap89, Cap90, Cap120>>

RECURSIVE JoinUnderscore(_)
JoinUnderscore(words) ==
    IF words = <<>> THEN <<>>
    ELSE IF Len(words) = 1 THEN <<words[1]>>
    ELSE <<words[1], "_">> \o JoinUnderscore(Tail(words))

\* a source path: directory, file name words joined by "_", extension
SourcePath(dir, words, ext) == <<dir>> \o JoinUnderscore(words) \o <<ext>>

Sm80Sources ==
    << SourcePath("csrc/qattn/", <<"pybind", "sm80">>, ".cpp"),
       SourcePath("csrc/qattn/", <<"qk", "int", "sv", "f16", "cuda", "sm80">>, ".cu") >>

Sm89Sources ==
    << SourcePath("csrc/qattn/", <<"pybind", "sm89">>, ".cpp"),
       SourcePath("csrc/qattn/", <<"sm89", "qk", "int8", "sv", "f8", "accum", "f32",
                                   "attn", "inst", "buf">>, ".cu"),
       SourcePath("csrc/qattn/", <<"sm89", "qk", "int8", "sv", "f8", "accum", "f16",
                                   "attn", "inst", "buf">>, ".cu"),
       SourcePath("csrc/qattn/", <<"sm89", "qk", "int8", "sv", "f8", "accum", "f32",
                                   "attn">>, ".cu"),
       SourcePath("csrc/qattn/", <<"sm89", "qk", "int8", "sv", "f8", "accum", "f32",
                                   "fuse", "v", "scale", "fuse", "v", "mean",
                                   "attn">>, ".cu"),
       SourcePath("csrc/qattn/", <<"sm89", "qk", "int8", "sv", "f8", "accum", "f32",
                                   "fuse", "v", "scale", "attn">>, ".cu"),
       SourcePath("csrc/qattn/", <<"sm89", "qk", "int8", "sv", "f8", "accum", "f32",
                                   "fuse", "v", "scale", "attn", "inst", "buf">>, ".cu"),
       SourcePath("csrc/qattn/", <<"sm89", "qk", "int8", "sv", "f8", "accum", "f16",
                                   "fuse", "v", "scale", "attn", "inst", "buf">>, ".cu") >>

Sm90Sources ==
    << SourcePath("csrc/qattn/", <<"pybind", "sm90">>, ".cpp"),
       SourcePath("csrc/qattn/", <<"qk", "int", "sv", "f8", "cuda", "sm90">>, ".cu") >>

FusedSources ==
    << SourcePath("csrc/fused/", <<"pybind">>, ".cpp"),
       SourcePath("csrc/fused/", <<"fused">>, ".cu") >>

\* the module-level statements of the script, in program order
ScriptOrder_lateValidate ==
    << "cuda_home", "arch_list", "nvcc", "empty_check",
       "sm80", "validate", "sm89", "sm90", "fused", "setup", "done" >>

ScriptOrder ==
    << "cuda_home", "arch_list", "nvcc", "empty_check", "validate",
       "sm80", "sm89", "sm90", "fused", "setup", "done" >>

\* the statement that follows statement s
After(s) ==
    LET k == CHOOSE n \in 1..Len(ScriptOrder) : ScriptOrder[n] = s
    IN  ScriptOrder[k + 1]

\* ------------------------------------------------------------------- state
VARIABLES
    CUDA_HOME,              \* torch's CUDA_HOME: None or a directory
    arch_list,              \* os.getenv("SAGEATTENTION_CUDA_ARCH_LIST")
    pc,                     \* the statement the script is at
    compute_capabilities,   \* the set of target capability strings
    device_count,           \* torch.cuda.device_count()
    i,                      \* index of the GPU loop
    nvcc_cuda_version,      \* release reported by nvcc -V
    ext_modules,            \* the list of CUDAExtension objects
    error,                  \* message of the RuntimeError raised, or None
    setup_called,           \* setup() was invoked with ext_modules
    \* --- one launch of an attention kernel on one query row, two runs
    config,                 \* [causal, row, q]: masking flag, query position, query value
    Kmem,                   \* key values of the sequence, position j at index j + 1
    Vmem,                   \* value values of the sequence
    softmax,                \* per run: running maximum m, running sum l, accumulator acc
    tile,                   \* per run: index of the next key/value tile to consume
    output,                 \* per run: the normalised output row, or -1 before completion
    perturbed,              \* run 2 read a masked position that differs from run 1
    consumed,               \* per run: the tiles consumed so far, in order
    slots,                  \* on-chip buffers of the buffered kernel
    issued,                 \* number of tile loads the buffered kernel has issued
    landed                  \* tiles whose load has completed in the buffered kernel

buildVars == << CUDA_HOME, arch_list, pc, compute_capabilities, device_count, i,
                nvcc_cuda_version, ext_modules, error, setup_called >>

kernelVars == << config, Kmem, Vmem, softmax, tile, output, perturbed, consumed,
                 slots, issued, landed >>

vars == << buildVars, kernelVars >>

\* ------------------------------------------------------- script functions
\* has_capability(target) with target a tuple of prefixes; the calls that
\* pass one string pass the one-element tuple here
has_capability(target) ==
    \E cc \in compute_capabilities : StartsWithAny(cc, target)

\* capability "8.0+PTX" -> num "80", with the "a" suffix for 90 and 120
ArchNum(capability) ==
    LET num == Remove(Split(capability, "+")[1], ".")
    IN  IF num \in SuffixedArchs THEN Append(num, "a") ELSE num

GencodeSass(num) == <<"arch=compute_">> \o num \o <<",code=sm_">> \o num

GencodePtx(num) == <<"arch=compute_">> \o num \o <<",code=compute_">> \o num

InList(x, list) == \E k \in 1..Len(list) : list[k] = x

RECURSIVE GencodeFlags(_, _)
\* the loop of get_nvcc_flags over the capabilities in iteration order
GencodeFlags(order, allowed_capabilities) ==
    IF order = <<>> THEN <<>>
    ELSE
        LET capability == Head(order)
            rest == GencodeFlags(Tail(order), allowed_capabilities)
            num == ArchNum(capability)
        IN  IF ~InList(capability, allowed_capabilities) THEN rest
            ELSE << <<"-gencode">>, GencodeSass(num) >>
                 \o (IF EndsWith(capability, <<"+", "P", "T", "X">>)
                     THEN << <<"-gencode">>, GencodePtx(num) >>
                     ELSE <<>>)
                 \o rest

get_nvcc_flags(order, allowed_capabilities) ==
    GencodeFlags(order, allowed_capabilities) \o NVCC_FLAGS_COMMON

\* the orders in which a Python set of strings can be iterated
IterationOrders(S) ==
    { f \in [1..Cardinality(S) -> S] :
        \A a, b \in 1..Cardinality(S) : a # b => f[a] # f[b] }

CUDAExtension(name, sources, libraries, nvcc) ==
    [name |-> name, sources |-> sources, libraries |-> libraries, nvcc |-> nvcc]

\* no kernel is launched while the package is being built
KernelIdle ==
    /\ config = [causal |-> FALSE, row |-> 0, q |-> 0]
    /\ Kmem = <<>>
    /\ Vmem = <<>>
    /\ softmax = <<>>
    /\ tile = <<>>
    /\ output = <<>>
    /\ perturbed = FALSE
    /\ consumed = <<>>
    /\ slots = <<>>
    /\ issued = 0
    /\ landed = {}

\* -------------------------------------------------------------------- Init
Init ==
    /\ CUDA_HOME \in {None, "/usr/local/cuda"}
    /\ arch_list \in ArchListValues
    /\ pc = "cuda_home"
    /\ compute_capabilities = {}
    /\ device_count = 0
    /\ i = 0
    /\ nvcc_cuda_version = <<0, 0>>
    /\ ext_modules = <<>>
    /\ error = None
    /\ setup_called = FALSE
    /\ KernelIdle

Raise(msg) ==
    /\ pc' = "raised"
    /\ error' = msg

\* ----------------------------------------------------------------- actions
\* lines 49-51: CUDA_HOME must be known
CheckCudaHome ==
    /\ pc = "cuda_home"
    /\ IF CUDA_HOME = None
       THEN Raise("Cannot find CUDA_HOME. CUDA must be available to build the package.")
       ELSE pc' = After("cuda_home") /\ error' = error
    /\ UNCHANGED kernelVars
    /\ UNCHANGED << CUDA_HOME, arch_list, compute_capabilities, device_count, i,
                    nvcc_cuda_version, ext_modules, setup_called >>

\* lines 65-68: the environment variable is set and not empty
ReadArchList ==
    /\ pc = "arch_list"
    /\ arch_list # <<>>
    /\ LET xs == SplitWhitespace(arch_list)
       IN  compute_capabilities' = { xs[k] : k \in 1..Len(xs) }
    /\ pc' = After("arch_list")
    /\ UNCHANGED kernelVars
    /\ UNCHANGED << CUDA_HOME, arch_list, device_count, i, nvcc_cuda_version,
                    ext_modules, error, setup_called >>

\* lines 69-71: otherwise count the GPUs of the machine
StartDetect ==
    /\ pc = "arch_list"
    /\ arch_list = <<>>
    /\ \E n \in 0..MaxGPUs : device_count' = n
    /\ i' = 0
    /\ pc' = "detect"
    /\ UNCHANGED kernelVars
    /\ UNCHANGED << CUDA_HOME, arch_list, compute_capabilities, nvcc_cuda_version,
                    ext_modules, error, setup_called >>

\* lines 72-77: one iteration of the loop over the GPUs
DetectDevice ==
    /\ pc = "detect"
    /\ i < device_count
    /\ \E cap \in DeviceCapabilities :
         LET major == cap[1]
             minor == cap[2]
         IN  IF major < 8
             THEN compute_capabilities' = compute_capabilities
             ELSE compute_capabilities' =
                      compute_capabilities \cup {FormatCapability(major, minor)}
    /\ i' = i + 1
    /\ UNCHANGED kernelVars
    /\ UNCHANGED << CUDA_HOME, arch_list, pc, device_count, nvcc_cuda_version,
                    ext_modules, error, setup_called >>

\* the loop over the GPUs is exhausted
EndDetect ==
    /\ pc = "detect"
    /\ i >= device_count
    /\ pc' = After("arch_list")
    /\ UNCHANGED kernelVars
    /\ UNCHANGED << CUDA_HOME, arch_list, compute_capabilities, device_count, i,
                    nvcc_cuda_version, ext_modules, error, setup_called >>

\* lines 53-63, 79: the release nvcc -V reports, already parsed
GetNvccCudaVersion ==
    /\ pc = "nvcc"
    /\ \E v \in NvccVersions : nvcc_cuda_version' = v
    /\ pc' = After("nvcc")
    /\ UNCHANGED kernelVars
    /\ UNCHANGED << CUDA_HOME, arch_list, compute_capabilities, device_count, i,
                    ext_modules, error, setup_called >>

\* lines 80-83: at least one target capability
CheckCapabilities ==
    /\ pc = "empty_check"
    /\ IF compute_capabilities = {}
       THEN Raise("No GPUs found. Please specify SAGEATTENTION_CUDA_ARCH_LIST or build on a machine with GPUs.")
       ELSE pc' = After("empty_check") /\ error' = error
    /\ UNCHANGED kernelVars
    /\ UNCHANGED << CUDA_HOME, arch_list, compute_capabilities, device_count, i,
                    nvcc_cuda_version, ext_modules, setup_called >>

\* lines 88-99: validate the NVCC CUDA version
ValidateNvccVersion ==
    /\ pc = "validate"
    /\ IF VersionLess(nvcc_cuda_version, MinCuda)
       THEN Raise("CUDA 12.0 or higher is required to build the package.")
       ELSE IF VersionLess(nvcc_cuda_version, MinCuda89) /\ has_capability(<<Cap89>>)
       THEN Raise("CUDA 12.4 or higher is required for compute capability 8.9.")
       ELSE IF VersionLess(nvcc_cuda_version, MinCuda90) /\ has_capability(<<Cap90>>)
       THEN Raise("CUDA 12.3 or higher is required for compute capability 9.0.")
       ELSE IF VersionLess(nvcc_cuda_version, MinCuda120) /\ has_capability(<<Cap120>>)
       THEN Raise("CUDA 12.8 or higher is required for compute capability 12.0.")
       ELSE pc' = After("validate") /\ error' = error
    /\ UNCHANGED kernelVars
    /\ UNCHANGED << CUDA_HOME, arch_list, compute_capabilities, device_count, i,
                    nvcc_cuda_version, ext_modules, setup_called >>

\* lines 124-136: the sm80 attention extension
RegisterSm80 ==
    /\ pc = "sm80"
    /\ IF has_capability(<<Cap80>>)
       THEN \E order \in IterationOrders(compute_capabilities) :
              ext_modules' = Append(ext_modules,
                  CUDAExtension("sageattention._qattn_sm80", Sm80Sources, <<>>,
                                get_nvcc_flags(order, Sm80Allowed)))
       ELSE ext_modules' = ext_modules
    /\ pc' = After("sm80")
    /\ UNCHANGED kernelVars
    /\ UNCHANGED << CUDA_HOME, arch_list, compute_capabilities, device_count, i,
                    nvcc_cuda_version, error, setup_called >>

\* lines 138-156: the sm89 attention extension, also built for 12.0
RegisterSm89 ==
    /\ pc = "sm89"
    /\ IF has_capability(<<Cap89, Cap120>>)
       THEN \E order \in IterationOrders(compute_capabilities) :
              ext_modules' = Append(ext_modules,
                  CUDAExtension("sageattention._qattn_sm89", Sm89Sources, <<>>,
                                get_nvcc_flags(order, Sm89Allowed)))
       ELSE ext_modules' = ext_modules
    /\ pc' = After("sm89")
    /\ UNCHANGED kernelVars
    /\ UNCHANGED << CUDA_HOME, arch_list, compute_capabilities, device_count, i,
                    nvcc_cuda_version, error, setup_called >>

\* lines 158-171: the sm90 attention extension
RegisterSm90 ==
    /\ pc = "sm90"
    /\ IF has_capability(<<Cap90>>)
       THEN \E order \in IterationOrders(compute_capabilities) :
              ext_modules' = Append(ext_modules,
                  CUDAExtension("sageattention._qattn_sm90", Sm90Sources, <<"cuda">>,
                                get_nvcc_flags(order, Sm90Allowed)))
       ELSE ext_modules' = ext_modules
    /\ pc' = After("sm90")
    /\ UNCHANGED kernelVars
    /\ UNCHANGED << CUDA_HOME, arch_list, compute_capabilities, device_count, i,
                    nvcc_cuda_version, error, setup_called >>

\* lines 173-182: the fused kernels, always registered
RegisterFused ==
    /\ pc = "fused"
    /\ \E order \in IterationOrders(compute_capabilities) :
         ext_modules' = Append(ext_modules,
             CUDAExtension("sageattention._fused", FusedSources, <<>>,
                           get_nvcc_flags(order, FusedAllowed)))
    /\ pc' = After("fused")
    /\ UNCHANGED kernelVars
    /\ UNCHANGED << CUDA_HOME, arch_list, compute_capabilities, device_count, i,
                    nvcc_cuda_version, error, setup_called >>

\* lines 184-197: setup() builds ext_modules
Setup ==
    /\ pc = "setup"
    /\ setup_called' = TRUE
    /\ pc' = After("setup")
    /\ UNCHANGED kernelVars
    /\ UNCHANGED << CUDA_HOME, arch_list, compute_capabilities, device_count, i,
                    nvcc_cuda_version, ext_modules, error >>

Next ==
    \/ CheckCudaHome
    \/ ReadArchList
    \/ StartDetect
    \/ DetectDevice
    \/ EndDetect
    \/ GetNvccCudaVersion
    \/ CheckCapabilities
    \/ ValidateNvccVersion
    \/ RegisterSm80
    \/ RegisterSm89
    \/ RegisterSm90
    \/ RegisterFused
    \/ Setup

Spec == Init /\ [][Next]_vars

\* ================================================================ kernels
\* The attention kernels themselves (csrc/qattn/*.cu, compiled by the
\* extensions above) are modelled from their specification: one query row
\* against a key/value sequence, head dimension 1, weights 2^(s - m) in fixed
\* point with FracBits fractional bits.

\* sequence length
SeqLen == 4
\* key/value positions per tile
TileSize == 2
\* fractional bits of the fixed-point weights
FracBits == 4
\* on-chip tile buffers of the buffered kernel
NumBuffers == 2

KeyValues == {0, 1}

ValueValues == {0, 1}

QueryValues == {1, 2}

NumTiles == (SeqLen + TileSize - 1) \div TileSize

Unit == 2 ^ FracBits

\* number of positions in tile t (the last tile may be short)
TileLen(t) ==
    IF SeqLen - t * TileSize < TileSize THEN SeqLen - t * TileSize ELSE TileSize

\* step 1: the tile t of K and V as it is read from global memory
LoadTile(K, V, t) ==
    [x \in 1..TileLen(t) |->
        [pos |-> t * TileSize + x - 1,
         k |-> K[t * TileSize + x],
         v |-> V[t * TileSize + x]]]

\* steps 2-3: the dequantised, scaled score of a query against a key
Score(q, k) == q * k

\* step 5: with causal masking a key position after the query row is masked
Masked(cfg, pos) == cfg.causal /\ pos > cfg.row

\* the softmax weight of a score under running maximum m
Weight_epsilon(masked, s, m) ==
    IF masked THEN 1 ELSE Unit \div (2 ^ (m - s))

Weight(masked, s, m) ==
    IF masked THEN 0 ELSE Unit \div (2 ^ (m - s))

MaxOf(S) == CHOOSE x \in S : \A y \in S : y <= x

RECURSIVE WeightSum(_, _, _, _)
\* sum over a tile of the weights (withV = FALSE) or weighted values (TRUE)
WeightSum(data, cfg, m, withV) ==
    IF data = <<>> THEN 0
    ELSE
        LET e == Head(data)
            w == Weight(Masked(cfg, e.pos), Score(cfg.q, e.k), m)
        IN  (IF withV THEN w * e.v ELSE w) + WeightSum(Tail(data), cfg, m, withV)

InitialSoftmax == [m |-> -1, l |-> 0, acc |-> 0]

\* step 4: the streaming-softmax recurrence on one tile; the running sum and
\* accumulator are rescaled when the running maximum increases
OnlineSoftmax(st, data, cfg) ==
    LET live == { x \in 1..Len(data) : ~Masked(cfg, data[x].pos) }
    IN  IF live = {} THEN st
        ELSE
            LET tmax == MaxOf({ Score(cfg.q, data[x].k) : x \in live })
                m == IF st.m > tmax THEN st.m ELSE tmax
                d == m - st.m
            IN  [m |-> m,
                 l |-> (st.l \div (2 ^ d)) + WeightSum(data, cfg, m, FALSE),
                 acc |-> (st.acc \div (2 ^ d)) + WeightSum(data, cfg, m, TRUE)]

\* step 6: normalise the accumulator by the final running sum
Normalize(st) == IF st.l = 0 THEN 0 ELSE (st.acc * Unit) \div st.l

\* a second run reads the same tile except at positions after the query
\* row, where its keys and values are arbitrary; every position is read
\* once, so the choice is made when the tile is read
PerturbedTiles(K, V, cfg, t) ==
    { [x \in 1..TileLen(t) |->
          [pos |-> t * TileSize + x - 1, k |-> kv[x][1], v |-> kv[x][2]]] :
      kv \in { f \in [1..TileLen(t) -> KeyValues \X ValueValues] :
                 \A x \in 1..TileLen(t) :
                    (t * TileSize + x - 1 <= cfg.row)
                        => f[x] = <<K[t * TileSize + x], V[t * TileSize + x]>> } }

EmptySlot == [tile |-> -1, ready |-> FALSE, data |-> <<>>]

\* the buffered kernel may consume tile c from a slot once its load landed
CanConsume_nowait(slot, c) == slot.tile = c

CanConsume(slot, c) == slot.tile = c /\ slot.ready

\* the package was built for 8.9 with CUDA 12.4
BuildDone ==
    /\ CUDA_HOME = "/usr/local/cuda"
    /\ arch_list = Cap89
    /\ pc = "done"
    /\ compute_capabilities = {Cap89}
    /\ device_count = 0
    /\ i = 0
    /\ nvcc_cuda_version = MinCuda89
    /\ ext_modules =
         << CUDAExtension("sageattention._qattn_sm89", Sm89Sources, <<>>,
                          get_nvcc_flags(<<Cap89>>, Sm89Allowed)),
            CUDAExtension("sageattention._fused", FusedSources, <<>>,
                          get_nvcc_flags(<<Cap89>>, FusedAllowed)) >>
    /\ error = None
    /\ setup_called = TRUE

\* a launch: one query row, its configuration and the K/V sequence
Launch ==
    /\ config \in [causal : BOOLEAN, row : 0..(SeqLen - 1), q : QueryValues]
    /\ Kmem \in [1..SeqLen -> KeyValues]
    /\ Vmem \in [1..SeqLen -> ValueValues]
    /\ softmax = <<InitialSoftmax, InitialSoftmax>>
    /\ tile = <<0, 0>>
    /\ output = <<-1, -1>>
    /\ perturbed = FALSE
    /\ consumed = << <<>>, <<>> >>
    /\ slots = [b \in 0..(NumBuffers - 1) |-> EmptySlot]
    /\ issued = 0
    /\ landed = {}

\* ----------------------------------------- two runs of the tiled kernel
InitCausal == BuildDone /\ Launch

\* both runs consume their next tile; run 2 reads perturbed masked positions
AttendTile ==
    /\ output = <<-1, -1>>
    /\ tile[1] < NumTiles
    /\ \E d2 \in PerturbedTiles(Kmem, Vmem, config, tile[1]) :
         LET d1 == LoadTile(Kmem, Vmem, tile[1])
         IN  /\ softmax' = << OnlineSoftmax(softmax[1], d1, config),
                              OnlineSoftmax(softmax[2], d2, config) >>
             /\ perturbed' = (perturbed \/ d2 # d1)
    /\ tile' = <<tile[1] + 1, tile[2] + 1>>
    /\ UNCHANGED << config, Kmem, Vmem, output, consumed, slots, issued, landed >>
    /\ UNCHANGED buildVars

\* after the last tile both runs write their output row
FinishRow ==
    /\ output = <<-1, -1>>
    /\ tile[1] = NumTiles
    /\ output' = <<Normalize(softmax[1]), Normalize(softmax[2])>>
    /\ UNCHANGED << config, Kmem, Vmem, softmax, tile, perturbed, consumed,
                    slots, issued, landed >>
    /\ UNCHANGED buildVars

NextCausal == AttendTile \/ FinishRow

SpecCausal == InitCausal /\ [][NextCausal]_vars

\* ------------------------- non-buffered (run 1) against buffered (run 2)
InitBuffered == BuildDone /\ Launch

\* non-buffered kernel: load the next tile, synchronise, consume it
NbTile ==
    /\ tile[1] < NumTiles
    /\ LET d == LoadTile(Kmem, Vmem, tile[1])
       IN  /\ softmax' = [softmax EXCEPT ![1] = OnlineSoftmax(@, d, config)]
           /\ consumed' = [consumed EXCEPT ![1] = Append(@, d)]
    /\ tile' = [tile EXCEPT ![1] = @ + 1]
    /\ UNCHANGED << config, Kmem, Vmem, output, perturbed, slots, issued, landed >>
    /\ UNCHANGED buildVars

NbFinish ==
    /\ tile[1] = NumTiles
    /\ output[1] = -1
    /\ output' = [output EXCEPT ![1] = Normalize(softmax[1])]
    /\ UNCHANGED << config, Kmem, Vmem, softmax, tile, perturbed, consumed,
                    slots, issued, landed >>
    /\ UNCHANGED buildVars

\* buffered kernel: issue the load of a future tile into a free buffer,
\* without waiting for the compute on the current tile
IbIssueLoad ==
    /\ issued < NumTiles
    /\ issued < tile[2] + NumBuffers
    /\ slots' = [slots EXCEPT ![issued % NumBuffers] =
                    [tile |-> issued, ready |-> FALSE, data |-> @.data]]
    /\ issued' = issued + 1
    /\ UNCHANGED << config, Kmem, Vmem, softmax, tile, output, perturbed,
                    consumed, landed >>
    /\ UNCHANGED buildVars

\* the memory transfer of an issued load completes
IbLoadComplete ==
    /\ \E b \in 0..(NumBuffers - 1) :
         /\ slots[b].tile >= 0
         /\ ~slots[b].ready
         /\ slots' = [slots EXCEPT ![b] =
                         [tile |-> @.tile, ready |-> TRUE,
                          data |-> LoadTile(Kmem, Vmem, @.tile)]]
         /\ landed' = landed \cup {slots[b].tile}
    /\ UNCHANGED << config, Kmem, Vmem, softmax, tile, output, perturbed,
                    consumed, issued >>
    /\ UNCHANGED buildVars

\* buffered kernel: consume the current tile from its buffer
IbCompute ==
    /\ tile[2] < NumTiles
    /\ CanConsume(slots[tile[2] % NumBuffers], tile[2])
    /\ LET d == slots[tile[2] % NumBuffers].data
       IN  /\ softmax' = [softmax EXCEPT ![2] = OnlineSoftmax(@, d, config)]
           /\ consumed' = [consumed EXCEPT ![2] = Append(@, d)]
    /\ tile' = [tile EXCEPT ![2] = @ + 1]
    /\ UNCHANGED << config, Kmem, Vmem, output, perturbed, slots, issued, landed >>
    /\ UNCHANGED buildVars

IbFinish ==
    /\ tile[2] = NumTiles
    /\ output[2] = -1
    /\ output' = [output EXCEPT ![2] = Normalize(softmax[2])]
    /\ UNCHANGED << config, Kmem, Vmem, softmax, tile, perturbed, consumed,
                    slots, issued, landed >>
    /\ UNCHANGED buildVars

NextBuffered ==
    \/ NbTile
    \/ NbFinish
    \/ IbIssueLoad
    \/ IbLoadComplete
    \/ IbCompute
    \/ IbFinish

SpecBuffered == InitBuffered /\ [][NextBuffered]_vars

\* ============================================================== properties
\* helpers of the properties
PtxSuffix == <<"+", "P", "T", "X">>

RegisteredCapabilities == {Cap80, Cap89, Cap90, Cap120}

RegistrationSteps == {"sm80", "sm89", "sm90", "fused", "setup", "done"}

DigitValue(ch) == CHOOSE d \in 0..9 : Digits[d + 1] = ch

RECURSIVE StrToInt(_)
StrToInt(s) ==
    IF s = <<>> THEN 0
    ELSE 10 * StrToInt(SubSeq(s, 1, Len(s) - 1)) + DigitValue(s[Len(s)])

\* the major version written in a capability string
MajorOf(cc) == StrToInt(Split(cc, ".")[1])

QattnNames ==
    {"sageattention._qattn_sm80", "sageattention._qattn_sm89",
     "sageattention._qattn_sm90"}

\* the capabilities an extension is meant to be compiled for
AllowedOf(name) ==
    CASE name = "sageattention._qattn_sm80" -> <<Cap80>>
      [] name = "sageattention._qattn_sm89" -> <<Cap89, Cap120>>
      [] name = "sageattention._qattn_sm90" -> <<Cap90>>
      [] OTHER -> <<Cap80, Cap89, Cap90, Cap120>>

\* the extension carries a SASS target for capability cc
Serves(ext, cc) == InList(GencodeSass(ArchNum(cc)), ext.nvcc)

\* the words of a source file name
WordsOf(path) == Split(SubSeq(path, 2, Len(path) - 1), "_")

\* the kernel variant key read off a kernel source name:
\* (architecture, accumulation precision, fusion flags, buffered)
KernelKey(path) ==
    LET w == WordsOf(path)
        n == Len(w)
    IN  [ arch |-> IF \E k \in 1..n : w[k] \in {<<"sm80">>, <<"sm89">>, <<"sm90">>}
                   THEN w[CHOOSE k \in 1..n : w[k] \in {<<"sm80">>, <<"sm89">>, <<"sm90">>}]
                   ELSE <<"none">>,
          accum |-> IF \E k \in 1..(n - 1) : w[k] = <<"accum">>
                    THEN w[(CHOOSE k \in 1..(n - 1) : w[k] = <<"accum">>) + 1]
                    ELSE <<"default">>,
          fusion |-> { w[k + 2] : k \in { j \in 1..(n - 2) :
                                           w[j] = <<"fuse">> /\ w[j + 1] = <<"v">> } },
          buffered |-> n >= 2 /\ w[n - 1] = <<"inst">> /\ w[n] = <<"buf">> ]

IsKernelSource(path) == path[Len(path)] = ".cu"

\* the gencode targets among the flags of an extension
TargetFlags(ext) ==
    { ext.nvcc[k] : k \in { j \in 1..Len(ext.nvcc) :
                              ext.nvcc[j][1] = "arch=compute_" } }

\* the architecture number written in a gencode target
TargetNum(f) ==
    SubSeq(f, 2, (CHOOSE k \in 2..Len(f) :
                     f[k] \in {",code=sm_", ",code=compute_"}) - 1)

\* C1: whenever a requested target capability has no registered attention
\* kernel (it is none of 8.0, 8.9, 9.0, 12.0), the run ends in an error and
\* never reaches setup()
C1_UnregisteredCapabilityFails ==
    setup_called =>
        \A cc \in compute_capabilities : cc \in RegisteredCapabilities

\* C2: once the script registers extensions, no target capability has a
\* major version below 8
C2_NoCapabilityBelow8 ==
    pc \in RegistrationSteps =>
        \A cc \in compute_capabilities : MajorOf(cc) >= 8

\* C3: a run that raised a configuration error has registered and built
\* nothing, and a run that built has passed every check
C3_NoPartialSuccess ==
    /\ error # None => ext_modules = <<>> /\ ~setup_called
    /\ (ext_modules # <<>> \/ setup_called) =>
           /\ CUDA_HOME # None
           /\ compute_capabilities # {}
           /\ ~VersionLess(nvcc_cuda_version, <<12, 0>>)

\* a version failure is raised with a non-empty target set
C3_Witness ==
    /\ pc = "raised"
    /\ error = "CUDA 12.4 or higher is required for compute capability 8.9."
    /\ Cap80 \in compute_capabilities

\* C4: extension names are unique, each target capability is served by at
\* most one _qattn_ extension, and the kernel sources of an extension have
\* pairwise different variant keys
C4_OneImplementationPerKey ==
    /\ \A a, b \in 1..Len(ext_modules) :
          a # b => ext_modules[a].name # ext_modules[b].name
    /\ \A cc \in compute_capabilities :
          Cardinality({ k \in 1..Len(ext_modules) :
                          /\ ext_modules[k].name \in QattnNames
                          /\ Serves(ext_modules[k], cc) }) <= 1
    /\ \A k \in 1..Len(ext_modules) :
          LET src == ext_modules[k].sources
          IN  \A a, b \in 1..Len(src) :
                (a # b /\ IsKernelSource(src[a]) /\ IsKernelSource(src[b]))
                    => KernelKey(src[a]) # KernelKey(src[b])

\* two attention extensions and the fused one are registered and built
C4_Witness ==
    /\ setup_called
    /\ Len(ext_modules) >= 3
    /\ \E k \in 1..Len(ext_modules) :
          /\ ext_modules[k].name = "sageattention._qattn_sm89"
          /\ Serves(ext_modules[k], Cap89)

\* C7: past the validation the run has either raised or the CUDA release is
\* at least 12.0, 12.4 with a target 8.9*, 12.3 with 9.0*, 12.8 with 12.0*
C7_MinimumCudaEnforced ==
    pc \in RegistrationSteps =>
        /\ ~VersionLess(nvcc_cuda_version, <<12, 0>>)
        /\ (\E cc \in compute_capabilities : StartsWith(cc, <<"8", ".", "9">>))
              => ~VersionLess(nvcc_cuda_version, <<12, 4>>)
        /\ (\E cc \in compute_capabilities : StartsWith(cc, <<"9", ".", "0">>))
              => ~VersionLess(nvcc_cuda_version, <<12, 3>>)
        /\ (\E cc \in compute_capabilities : StartsWith(cc, <<"1", "2", ".", "0">>))
              => ~VersionLess(nvcc_cuda_version, <<12, 8>>)

\* a build for 8.9 with exactly the minimum release reaches setup()
C7_Witness ==
    /\ setup_called
    /\ Cap89 \in compute_capabilities
    /\ nvcc_cuda_version = <<12, 4>>

\* C8: a target X.Y+PTX whose base X.Y is allowed for an extension gets
\* both the SASS and the PTX gencode target in that extension's flags
C8_PtxTargetsEmitted ==
    \A k \in 1..Len(ext_modules) :
        \A cc \in compute_capabilities :
            (/\ EndsWith(cc, PtxSuffix)
             /\ InList(Split(cc, "+")[1], AllowedOf(ext_modules[k].name)))
            => /\ InList(GencodeSass(ArchNum(cc)), ext_modules[k].nvcc)
               /\ InList(GencodePtx(ArchNum(cc)), ext_modules[k].nvcc)

\* C9: an emitted gencode target ends in "a" exactly when its architecture
\* number is 90 or 120, and names the same architecture on both sides
C9_ArchSuffix ==
    \A k \in 1..Len(ext_modules) :
        \A f \in TargetFlags(ext_modules[k]) :
            LET n == TargetNum(f)
            IN  /\ (Remove(n, "a") \in { <<"9", "0">>, <<"1", "2", "0">> })
                       <=> (n[Len(n)] = "a")
                /\ f \in {GencodeSass(n), GencodePtx(n)}
                /\ f \notin { <<"arch=compute_", "9", "0", ",code=sm_", "9", "0">>,
                              <<"arch=compute_", "1", "2", "0", ",code=sm_", "1", "2", "0">> }

\* a 12.0 target was emitted as sm_120a next to an unsuffixed 8.9 target
C9_Witness ==
    \E k \in 1..Len(ext_modules) :
        /\ <<"arch=compute_", "1", "2", "0", "a", ",code=sm_", "1", "2", "0", "a">>
              \in TargetFlags(ext_modules[k])
        /\ <<"arch=compute_", "8", "9", ",code=sm_", "8", "9">>
              \in TargetFlags(ext_modules[k])

\* C5: with causal masking, two runs that agree on every key/value position
\* up to the query row and differ arbitrarily after it have the same running
\* maximum, running sum and accumulator throughout and the same output
C5_CausalNonInterference ==
    config.causal =>
        /\ softmax[1].m = softmax[2].m
        /\ softmax[1].l = softmax[2].l
        /\ softmax[1].acc = softmax[2].acc
        /\ output[1] = output[2]

\* a causal run finished after reading perturbed keys or values
C5_Witness ==
    /\ config.causal
    /\ config.row < SeqLen - 1
    /\ perturbed
    /\ output[1] > 0
    /\ output[1] = output[2]

====
